---- MODULE Spec2Model ----
(***************************************************************************)
(* Model of the upst snapshot store (upst/storage.py) and of the fetch     *)
(* orchestrator (upst/scraper.py).                                         *)
(*                                                                         *)
(* The specifications of the module:                                       *)
(*   Spec           the snapshot store: write_snapshot and load_raw on a   *)
(*                  directory tree of part files;                          *)
(*   FaultSpec      the same on a disk where parts become unreadable;      *)
(*   LegacySpec     the same with _store_raw and load_clean;               *)
(*   RaceSpec       two write_snapshot calls in two processes;             *)
(*   ScrapeSpec     one run of scrape(): the listing fetch, the concurrent *)
(*                  detail fetches behind the semaphore, the stamping;     *)
(*   FairScrapeSpec the same run under a fair event loop.                  *)
(***************************************************************************)
EXTENDS Integers, Sequences, FiniteSets, TLC

VARIABLES
    today,       \* datetime.now(timezone.utc).date().isoformat()
    clock,       \* datetime.now(timezone.utc): the seconds after midnight
    rootExists,  \* Path(out_dir).exists()
    dirs,        \* partition directories under the root, by snapshot_date value
    files,       \* part files: path -> stored DataFrame
    used,        \* number of records handed to write_snapshot and _store_raw so far
    keysWritten, \* history: primary keys of every batch a write stored
    jsonUsed,    \* history: some write went through the JSON fallback
    corrupt,     \* files that cannot be parsed
    writers,     \* concurrent write_snapshot calls: position and locals of each
    last,        \* outcome of the last call (write_snapshot, _store_raw, load_raw, load_clean)
    phase,       \* scrape(): "new", "listing", "detail", "returned", "raised"
    conc,        \* scrape(): the concurrency argument
    permits,     \* scrape(): the value of the semaphore
    waiters,     \* scrape(): the calls blocked in semaphore.acquire(), oldest first
    woken,       \* scrape(): the waiters that were handed a permit and have not run yet
    tasks,       \* scrape(): the job id of every scheduled detail fetch
    fetch,       \* scrape(): the _fetch_json calls, 0 the listing, i the i-th task
    result,      \* scrape(): the list returned
    overtook     \* scrape(): history, a detail fetch ended before one scheduled earlier

storeVars == <<rootExists, dirs, files, used, keysWritten, jsonUsed, corrupt, writers, last>>

scrapeVars == <<phase, conc, permits, waiters, woken, tasks, fetch, result, overtook>>

vars == <<today, clock, storeVars, scrapeVars>>

-----------------------------------------------------------------------------
(* Bounds of the model.                                                    *)

\* Total number of records handed to write_snapshot in one behaviour.
MaxRows == 3

\* The same total in a behaviour where part files get damaged.
MaxFaultRows == 2

\* Number of records in the batch of each of two concurrent writers.
MaxRaceRows == 1

-----------------------------------------------------------------------------
(* Values.  Every cell value is a string; Null stands for None / NaN.      *)

Null == "null"

Dates == {"D1", "D2"}

\* The columns write_snapshot and load_raw drop (_DROP_COLS).
DROP_COLS == {"id", "internal_job_id", "metadata", "data_compliance", "company_name"}

\* Job dictionaries a caller may pass, with the field sets the code
\* distinguishes: job_id / requisition_id / id / none, snapshot_date or not.
Records ==
    { [job_id |-> "1", snapshot_date |-> "D1", title |-> "a"],
      [job_id |-> "1", snapshot_date |-> "D1", title |-> "b"],
      [job_id |-> "2", snapshot_date |-> "D1", title |-> "a"],
      [job_id |-> "1", snapshot_date |-> "D2", title |-> "a"],
      [id |-> "1", snapshot_date |-> "D1", title |-> "a"],
      [requisition_id |-> "2", id |-> "1", snapshot_date |-> "D1", metadata |-> "m"],
      [job_id |-> "2", title |-> "a"],
      [snapshot_date |-> "D1", title |-> "a"] }

RECURSIVE SeqsUpTo(_, _)
\* All sequences over S of length at most n.
SeqsUpTo(S, n) ==
    IF n = 0 THEN {<<>>}
    ELSE LET shorter == SeqsUpTo(S, n - 1)
         IN  shorter \cup {Append(s, x) : s \in {t \in shorter : Len(t) = n - 1}, x \in S}

-----------------------------------------------------------------------------
(* pandas.DataFrame, as far as the store uses it: a set of columns and a   *)
(* sequence of rows, each row a function from the columns to values.       *)

EmptyDf == [cols |-> {}, rows |-> <<>>]

\* pd.DataFrame(jobs): the columns are the union of the keys, a key a
\* record lacks is NaN in its row.
DataFrame(jobs) ==
    LET cols == UNION {DOMAIN jobs[i] : i \in 1..Len(jobs)}
    IN  [cols |-> cols,
         rows |-> [i \in 1..Len(jobs) |->
                     [c \in cols |-> IF c \in DOMAIN jobs[i] THEN jobs[i][c] ELSE Null]]]

\* df.rename(columns={from: to})
Rename(df, from, to) ==
    LET cols == (df.cols \ {from}) \cup {to}
    IN  [cols |-> cols,
         rows |-> [i \in 1..Len(df.rows) |->
                     [c \in cols |-> IF c = to THEN df.rows[i][from] ELSE df.rows[i][c]]]]

\* df.drop(columns=cs)
Drop(df, cs) ==
    LET cols == df.cols \ cs
    IN  [cols |-> cols,
         rows |-> [i \in 1..Len(df.rows) |-> [c \in cols |-> df.rows[i][c]]]]

\* df[col] = value
SetColumn(df, col, value) ==
    LET cols == df.cols \cup {col}
    IN  [cols |-> cols,
         rows |-> [i \in 1..Len(df.rows) |->
                     [c \in cols |-> IF c = col THEN value ELSE df.rows[i][c]]]]

\* The (job_id, snapshot_date) pair a row carries, null where the row has
\* no such column.
PairOf(row) ==
    <<IF "job_id" \in DOMAIN row THEN row["job_id"] ELSE Null,
      IF "snapshot_date" \in DOMAIN row THEN row["snapshot_date"] ELSE Null>>

\* The pairs of a sequence of rows.
Pairs(rows) == {PairOf(rows[i]) : i \in 1..Len(rows)}

\* The rows of a sequence pairwise differ in their pair.
DistinctPairs(rows) ==
    \A i, j \in 1..Len(rows) : i # j => PairOf(rows[i]) # PairOf(rows[j])

\* Mutant of Key: duplicates decided on job_id alone.
KeyJobIdOnly(row) == <<row["job_id"]>>

\* The subset drop_duplicates compares: subset=["job_id", "snapshot_date"].
Key(row) == <<row["job_id"], row["snapshot_date"]>>

RECURSIVE KeepLast(_, _)
\* Mutant of KeepFirst: keep="last".
KeepLast(rows, seen) ==
    IF rows = <<>> THEN <<>>
    ELSE IF \E i \in 2..Len(rows) : Key(rows[i]) = Key(Head(rows))
         THEN KeepLast(Tail(rows), seen)
         ELSE <<Head(rows)>> \o KeepLast(Tail(rows), seen)

RECURSIVE KeepFirst(_, _)
\* The rows of `rows` whose key is not in `seen` and not the key of an
\* earlier row, in order.
KeepFirst(rows, seen) ==
    IF rows = <<>> THEN <<>>
    ELSE IF Key(Head(rows)) \in seen
         THEN KeepFirst(Tail(rows), seen)
         ELSE <<Head(rows)>> \o KeepFirst(Tail(rows), seen \cup {Key(Head(rows))})

\* df.empty: an axis of the frame has length 0.
Empty(df) == df.cols = {} \/ df.rows = << >>

\* df.drop_duplicates(subset=["job_id", "snapshot_date"], keep="first"): an
\* empty frame is returned as it is, subset is not looked at; on any other
\* frame the caller checks that both columns exist (pandas raises KeyError).
DropDuplicates(df) ==
    IF Empty(df) THEN df ELSE [cols |-> df.cols, rows |-> KeepFirst(df.rows, {})]

\* The identifier harmonisation of write_snapshot.
HarmoniseId(df) ==
    IF "job_id" \notin df.cols
    THEN IF "requisition_id" \in df.cols THEN Rename(df, "requisition_id", "job_id")
         ELSE IF "id" \in df.cols THEN Rename(df, "id", "job_id")
         ELSE df
    ELSE df

\* write_snapshot, from pd.DataFrame(jobs) to just before drop_duplicates.
Normalise(jobs, snapshot_date) ==
    LET df1 == HarmoniseId(DataFrame(jobs))
        df2 == Drop(df1, DROP_COLS)
    IN  IF "snapshot_date" \notin df2.cols
        THEN SetColumn(df2, "snapshot_date", snapshot_date)
        ELSE df2

-----------------------------------------------------------------------------
(* Part file names: part-<stem>.<ext> inside snapshot_date=<date>.  A stem *)
(* is a sequence of characters: the decimal digits 0..9, and Underscore.   *)
(* An integer of the program is unbounded: it is kept as the sequence of   *)
(* its decimal digits, most significant first, without leading zeros.      *)

\* The character "_" in a stem.
Underscore == 10

RECURSIVE StripZeros(_)
\* The digits without their leading zeros, one digit at least.
StripZeros(ds) ==
    IF Len(ds) > 1 /\ Head(ds) = 0 THEN StripZeros(Tail(ds)) ELSE ds

\* int(p.stem.split("-")[-1]): the underscores between the digits are
\* ignored, as are leading zeros.
IntOf(stem) == StripZeros(SelectSeq(stem, LAMBDA ch : ch # Underscore))

RECURSIVE LexLess(_, _)
\* a < b for two digit sequences of the same length.
LexLess(a, b) ==
    IF a = << >> THEN FALSE
    ELSE IF Head(a) # Head(b) THEN Head(a) < Head(b)
    ELSE LexLess(Tail(a), Tail(b))

\* a < b for two integers.
IntLess(a, b) == Len(a) < Len(b) \/ (Len(a) = Len(b) /\ LexLess(a, b))

\* max(...) over a set of integers.
IntMax(S) == CHOOSE x \in S : \A y \in S : ~IntLess(x, y)

RECURSIVE IntSucc(_)
\* n + 1
IntSucc(ds) ==
    IF ds = << >> THEN <<1>>
    ELSE IF ds[Len(ds)] = 9 THEN Append(IntSucc(SubSeq(ds, 1, Len(ds) - 1)), 0)
    ELSE Append(SubSeq(ds, 1, Len(ds) - 1), ds[Len(ds)] + 1)

RECURSIVE PadLeft(_, _)
PadLeft(ds, width) == IF Len(ds) >= width THEN ds ELSE PadLeft(<<0>> \o ds, width)

\* f"{next_idx:03d}"
Format03d(n) == PadLeft(n, 3)

PartPath(date, idx, ext) == [date |-> date, stem |-> Format03d(idx), ext |-> ext]

NoPath == [date |-> "", stem |-> <<>>, ext |-> ""]

\* partition_dir.glob("part-*.parquet")
ExistingParts(fs, date) == {p \in DOMAIN fs : p.date = date /\ p.ext = "parquet"}

\* Mutant of NextIdx: every part is numbered 0.
NextIdxZero(fs, date) == <<0>>

\* next_idx: the highest index among the existing Parquet parts plus one.
NextIdx(fs, date) ==
    IF ExistingParts(fs, date) # {}
    THEN IntSucc(IntMax({IntOf(p.stem) : p \in ExistingParts(fs, date)}))
    ELSE <<0>>

-----------------------------------------------------------------------------
(* Outcomes of a call.                                                     *)

\* op: the call ("write", "load", "clean", "store_raw"); status: "ok" or the
\* exception raised; path: the path write_snapshot or _store_raw returned; jobs: the batch it was given; table: the frame
\* load_raw returned; warned: the paths of the "[warn] Could not read"
\* lines the call printed.
Outcome(op, status, path, jobs, table) ==
    [op |-> op, status |-> status, path |-> path, jobs |-> jobs, table |-> table,
     warned |-> {}]

NoCall == Outcome("none", "ok", NoPath, <<>>, EmptyDf)

-----------------------------------------------------------------------------
(* The store: write_snapshot.                                              *)

\* The batches a caller may still pass: any sequence of records, the empty
\* one included, within the budget of records left.
Batches(n) == SeqsUpTo(Records, n)

\* snapshot_date = jobs[0].get("snapshot_date"), today when it is None.
PartitionDate(jobs, now) ==
    IF "snapshot_date" \in DOMAIN jobs[1] THEN jobs[1]["snapshot_date"] ELSE now

\* The file the serialisation step writes: the Parquet part, or its
\* sibling with the .json suffix when to_parquet raised.
WrittenPath(out_path, pqOk) ==
    IF pqOk THEN out_path ELSE [out_path EXCEPT !.ext = "json"]

\* Mutant of ReturnedPath: out_path is not rebound to the fallback file.
ReturnedPathStale(out_path, pqOk) == out_path

\* return out_path, rebound to json_fallback when to_parquet raised.
ReturnedPath(out_path, pqOk) ==
    IF pqOk THEN out_path ELSE [out_path EXCEPT !.ext = "json"]

\* Mutant of RejectEmpty: the batch is checked after the partition
\* directory was created, for the current date as no record names one.
RejectEmptyAfterMkdir(jobs) ==
    /\ last' = Outcome("write", "ValueError", NoPath, jobs, EmptyDf)
    /\ rootExists' = TRUE
    /\ dirs' = dirs \cup {today}
    /\ UNCHANGED <<today, clock, files, used, keysWritten, jsonUsed, corrupt>>
    /\ UNCHANGED <<writers, scrapeVars>>

\* if not jobs: raise ValueError, before anything touches the disk.
RejectEmpty(jobs) ==
    /\ last' = Outcome("write", "ValueError", NoPath, jobs, EmptyDf)
    /\ UNCHANGED <<today, clock, rootExists, dirs, files, used, keysWritten, jsonUsed, corrupt>>
    /\ UNCHANGED <<writers, scrapeVars>>

\* write_snapshot(jobs, out_dir=root).  pqOk: df.to_parquet did not raise.
WriteSnapshot(jobs, pqOk) ==
    /\ Len(jobs) <= MaxRows - used
    /\ IF jobs = <<>>
       THEN RejectEmpty(jobs)
       ELSE LET snapshot_date == PartitionDate(jobs, today)
                out_path == PartPath(snapshot_date, NextIdx(files, snapshot_date), "parquet")
                df == Normalise(jobs, snapshot_date)
            IN  \* partition_dir.mkdir(parents=True, exist_ok=True)
                /\ rootExists' = TRUE
                /\ dirs' = dirs \cup {snapshot_date}
                /\ used' = used + Len(jobs)
                /\ UNCHANGED <<today, clock, corrupt, writers, scrapeVars>>
                /\ IF "job_id" \notin df.cols
                   THEN \* drop_duplicates raises KeyError: no part is written
                        /\ last' = Outcome("write", "KeyError", NoPath, jobs, EmptyDf)
                        /\ UNCHANGED <<files, keysWritten, jsonUsed>>
                   ELSE LET dedup == DropDuplicates(df)
                            path == WrittenPath(out_path, pqOk)
                        IN  /\ files' = (path :> dedup) @@ files
                            /\ keysWritten' = keysWritten \cup Pairs(df.rows)
                            /\ jsonUsed' = (jsonUsed \/ ~pqOk)
                            /\ last' = Outcome("write", "ok", ReturnedPath(out_path, pqOk),
                                               jobs, EmptyDf)

-----------------------------------------------------------------------------
(* The store: two write_snapshot calls running in two processes.  A call   *)
(* is a sequence of steps, one per access to the file system; writing a    *)
(* file is two of them: the file is opened, which creates or empties it,   *)
(* and later the bytes are written and the file is closed.                 *)

Writers == {1, 2}

\* pc: "idle", "mkdir", "scan", "write", "pq_open", "fallback", "json_open",
\* "done"; jobs: the batch; date: the snapshot_date local; out_path: the
\* out_path local; status: "ok" or the exception raised; ret: the path
\* returned; seq: the rank of its write among the writes to the store, 0
\* before; under: the number of bytes the other process has written into
\* the file this call holds open, since it was opened or emptied.
Writer(pc, jobs, date, out_path, status, ret, seq) ==
    [pc |-> pc, jobs |-> jobs, date |-> date, out_path |-> out_path,
     status |-> status, ret |-> ret, seq |-> seq, under |-> 0]

IdleWriter == Writer("idle", << >>, "", NoPath, "ok", NoPath, 0)

\* Mutant of MkdirStatus: mkdir without exist_ok.
MkdirStatusExclusive(exists) == IF exists THEN "FileExistsError" ELSE "ok"

\* partition_dir.mkdir(parents=True, exist_ok=True): an existing directory
\* is no error.
MkdirStatus(exists) == "ok"

\* len(s) for the strings of the model.
StrLen(s) ==
    IF s \in {"1", "2", "3", "a", "b", "c", "m", "t", "x"} THEN 1
    ELSE IF s \in {"D0", "D1", "D2", "id"} THEN 2
    ELSE IF s = "title" THEN 5
    ELSE IF s = "job_id" THEN 6
    ELSE IF s = "metadata" THEN 8
    ELSE IF s = "company_name" THEN 12
    ELSE IF s = "snapshot_date" THEN 13
    ELSE IF s = "requisition_id" THEN 14
    ELSE 15

\* The length of one '    "key": value' line of json.dumps(..., indent=2);
\* a missing value is written NaN, any other as a quoted string.
JsonFieldLen(key, value) ==
    4 + (StrLen(key) + 2) + 2 + (IF value = Null THEN 3 ELSE StrLen(value) + 2)

RECURSIVE JsonFieldsLen(_, _)
\* The length of the lines of the fields `keys` of a record, with the
\* ",\n" between two of them.
JsonFieldsLen(row, keys) ==
    IF keys = {} THEN 0
    ELSE LET k == CHOOSE x \in keys : TRUE
         IN  JsonFieldLen(k, row[k])
                 + (IF keys = {k} THEN 0 ELSE 2 + JsonFieldsLen(row, keys \ {k}))

\* The length of one record: "  {\n", its fields, "\n  }".
JsonRowLen(row) ==
    IF DOMAIN row = {} THEN 4 ELSE 4 + JsonFieldsLen(row, DOMAIN row) + 4

RECURSIVE JsonRowsLen(_)
JsonRowsLen(rows) ==
    IF rows = << >> THEN 0
    ELSE JsonRowLen(Head(rows))
             + (IF Len(rows) = 1 THEN 0 ELSE 2 + JsonRowsLen(Tail(rows)))

\* len(json.dumps(df.to_dict(orient="records"), indent=2))
JsonLen(df) == IF df.rows = << >> THEN 2 ELSE 2 + JsonRowsLen(df.rows) + 2

\* The number of bytes df.to_parquet writes, known to the Parquet library
\* only: two files are as long as each other, or one is the longer.
ParquetSizes == {1, 2}

\* The file a call holds open, NoPath when it holds none.
OpenPath(wr) ==
    IF wr.pc = "pq_open" THEN wr.out_path
    ELSE IF wr.pc = "json_open" THEN [wr.out_path EXCEPT !.ext = "json"]
    ELSE NoPath

\* The calls after the file at `path` got the length `size`: a call that
\* holds the file open has that many bytes under its own position.
WithUnder(ws, path, size) ==
    [v \in Writers |-> IF OpenPath(ws[v]) = path THEN [ws[v] EXCEPT !.under = size]
                       ELSE ws[v]]

\* write_snapshot(jobs) is called: the batch is checked and the partition
\* is derived.
RaceCall(w, jobs) ==
    /\ writers[w].pc = "idle"
    /\ writers' = [writers EXCEPT ![w] =
                      IF jobs = << >>
                      THEN Writer("done", jobs, "", NoPath, "ValueError", NoPath, 0)
                      ELSE Writer("mkdir", jobs, PartitionDate(jobs, today), NoPath,
                                  "ok", NoPath, 0)]
    /\ UNCHANGED <<today, clock, rootExists, dirs, files, used, keysWritten, jsonUsed, corrupt, last>>
    /\ UNCHANGED scrapeVars

\* partition_dir.mkdir(parents=True, exist_ok=True)
RaceMkdir(w) ==
    /\ writers[w].pc = "mkdir"
    /\ LET status == MkdirStatus(writers[w].date \in dirs)
       IN  IF status = "ok"
           THEN /\ rootExists' = TRUE
                /\ dirs' = dirs \cup {writers[w].date}
                /\ writers' = [writers EXCEPT ![w].pc = "scan"]
           ELSE /\ writers' = [writers EXCEPT ![w].pc = "done", ![w].status = status]
                /\ UNCHANGED <<rootExists, dirs>>
    /\ UNCHANGED <<today, clock, files, used, keysWritten, jsonUsed, corrupt, last>>
    /\ UNCHANGED scrapeVars

\* existing_parts = sorted(partition_dir.glob("part-*.parquet")) ...
\* out_path = partition_dir / f"part-{next_idx:03d}.parquet"
RaceScan(w) ==
    /\ writers[w].pc = "scan"
    /\ writers' = [writers EXCEPT
                      ![w].pc = "write",
                      ![w].out_path = PartPath(writers[w].date,
                                               NextIdx(files, writers[w].date), "parquet")]
    /\ UNCHANGED <<today, clock, rootExists, dirs, files, used, keysWritten, jsonUsed, corrupt, last>>
    /\ UNCHANGED scrapeVars

\* A file is opened for writing: it is created, or emptied if it exists;
\* until bytes are written it holds none and cannot be parsed.
RaceOpen(w, path, pc) ==
    /\ files' = (path :> EmptyDf) @@ files
    /\ corrupt' = corrupt \cup {path}
    /\ writers' = WithUnder([writers EXCEPT ![w].pc = pc, ![w].under = 0], path, 0)

\* The bytes of the frame, `size` of them, are written from the start of
\* the file the call holds open, and the file is closed.  Bytes another
\* process wrote beyond them stay: the file then parses as neither frame.
RaceClose(w, path, df, size) ==
    LET rank == Cardinality({v \in Writers : writers[v].seq > 0}) + 1
        whole == size >= writers[w].under
        length == IF whole THEN size ELSE writers[w].under
    IN  /\ files' = (path :> df) @@ files
        /\ corrupt' = IF whole THEN corrupt \ {path} ELSE corrupt \cup {path}
        /\ keysWritten' = keysWritten \cup Pairs(df.rows)
        /\ writers' = WithUnder([writers EXCEPT ![w].pc = "done", ![w].ret = path,
                                                ![w].seq = rank],
                                path, length)

\* The frame is built, and df.to_parquet(out_path) opens the part or
\* raises before it has created anything.
RaceToParquet(w, pqOk) ==
    /\ writers[w].pc = "write"
    /\ LET df == Normalise(writers[w].jobs, writers[w].date)
       IN  IF "job_id" \notin df.cols
           THEN /\ writers' = [writers EXCEPT ![w].pc = "done", ![w].status = "KeyError"]
                /\ UNCHANGED <<files, corrupt>>
           ELSE IF pqOk
           THEN RaceOpen(w, writers[w].out_path, "pq_open")
           ELSE /\ writers' = [writers EXCEPT ![w].pc = "fallback"]
                /\ UNCHANGED <<files, corrupt>>
    /\ UNCHANGED <<today, clock, rootExists, dirs, used, keysWritten, jsonUsed, last>>
    /\ UNCHANGED scrapeVars

\* df.to_parquet ends: the Parquet bytes are written and the part is
\* closed.  Their number is the business of the Parquet library: `size` is
\* any number of bytes, as many as lie under the call's position or fewer.
RaceParquetClose(w, size) ==
    /\ writers[w].pc = "pq_open"
    /\ RaceClose(w, writers[w].out_path,
                 DropDuplicates(Normalise(writers[w].jobs, writers[w].date)), size)
    /\ UNCHANGED <<today, clock, rootExists, dirs, used, jsonUsed, last>>
    /\ UNCHANGED scrapeVars

\* json_fallback.write_text(...) opens the sibling with the .json suffix.
RaceJsonOpen(w) ==
    /\ writers[w].pc = "fallback"
    /\ RaceOpen(w, [writers[w].out_path EXCEPT !.ext = "json"], "json_open")
    /\ UNCHANGED <<today, clock, rootExists, dirs, used, keysWritten, jsonUsed, last>>
    /\ UNCHANGED scrapeVars

\* json_fallback.write_text(...) writes the text and closes the file;
\* out_path = json_fallback; return out_path.
RaceJsonClose(w) ==
    /\ writers[w].pc = "json_open"
    /\ LET df == DropDuplicates(Normalise(writers[w].jobs, writers[w].date))
       IN  RaceClose(w, [writers[w].out_path EXCEPT !.ext = "json"], df, JsonLen(df))
    /\ jsonUsed' = TRUE
    /\ UNCHANGED <<today, clock, rootExists, dirs, used, last>>
    /\ UNCHANGED scrapeVars

-----------------------------------------------------------------------------
(* The store: load_raw.                                                    *)

\* Mutant of PLACEHOLDER_COLS: the placeholder columns of load_clean.
PlaceholderColsOfClean ==
    {"job_id", "snapshot_date", "title", "department", "employment_type",
     "salary_min", "salary_max", "seniority", "location", "departments", "offices"}

\* The placeholder columns of the empty frame returned for a missing root.
PLACEHOLDER_COLS ==
    {"job_id", "snapshot_date", "title", "department", "employment_type",
     "salary_min", "salary_max", "seniority"}

\* root.glob("snapshot_date=*/part-*.parquet")
GlobParts(fs) == {p \in DOMAIN fs : p.ext = "parquet"}

\* The orders in which the file system may enumerate a set of paths.
Enumerations(S) == {s \in SeqsUpTo(S, Cardinality(S)) :
                       Len(s) = Cardinality(S) /\ \A p \in S : \E i \in 1..Len(s) : s[i] = p}

\* The columns load_raw drops from every part.
READ_DROP_COLS == {"id", "internal_job_id", "metadata", "data_compliance", "company_name"}

\* Mutant of HarmoniseIdOnRead: id is preferred to requisition_id.
HarmoniseIdOnReadIdFirst(df) ==
    IF "job_id" \notin df.cols
    THEN IF "id" \in df.cols THEN Rename(df, "id", "job_id")
         ELSE IF "requisition_id" \in df.cols THEN Rename(df, "requisition_id", "job_id")
         ELSE df
    ELSE df

\* The identifier harmonisation load_raw applies to every part it read.
HarmoniseIdOnRead(df) ==
    IF "job_id" \notin df.cols
    THEN IF "requisition_id" \in df.cols THEN Rename(df, "requisition_id", "job_id")
         ELSE IF "id" \in df.cols THEN Rename(df, "id", "job_id")
         ELSE df
    ELSE df

\* The per-part harmonisation of load_raw.
HarmonisePart(df) == Drop(HarmoniseIdOnRead(df), READ_DROP_COLS)

RECURSIVE Concat(_)
\* pd.concat(frames, ignore_index=True): column union, NaN where a frame
\* lacks a column.
Concat(frames) ==
    IF frames = <<>> THEN EmptyDf
    ELSE LET rest == Concat(Tail(frames))
             cols == Head(frames).cols \cup rest.cols
             widen(rows) == [i \in 1..Len(rows) |->
                               [c \in cols |-> IF c \in DOMAIN rows[i] THEN rows[i][c] ELSE Null]]
         IN  [cols |-> cols, rows |-> widen(Head(frames).rows) \o widen(rest.rows)]

RECURSIVE ReadPartsUntilBad(_, _)
\* Mutant of ReadParts: the loop over the files ends at the first part that
\* cannot be read.
ReadPartsUntilBad(order, bad) ==
    IF order = << >> \/ Head(order) \in bad THEN << >>
    ELSE <<Head(order)>> \o ReadPartsUntilBad(Tail(order), bad)

\* for fp in files: try: pd.read_parquet(fp) except Exception: continue.
\* The parts that were read, in the order of the enumeration.
ReadParts(order, bad) == SelectSeq(order, LAMBDA p : p \notin bad)

\* The table load_raw builds from the parts enumerated in `order`, the
\* parts in `bad` being unreadable.
LoadRawResult(exists, fs, bad, order) ==
    IF ~exists
    THEN Outcome("load", "ok", NoPath, <<>>, [cols |-> PLACEHOLDER_COLS, rows |-> <<>>])
    ELSE IF order = <<>>
    THEN Outcome("load", "ok", NoPath, <<>>, EmptyDf)
    ELSE LET read == ReadParts(order, bad)
             warned == {order[i] : i \in 1..Len(order)} \cap bad
             frames == [i \in 1..Len(read) |-> HarmonisePart(fs[read[i]])]
             consolidated == Concat(frames)
         IN  IF frames = << >>
             THEN [Outcome("load", "ok", NoPath, <<>>, EmptyDf) EXCEPT !.warned = warned]
             ELSE IF Empty(consolidated)
             THEN [Outcome("load", "ok", NoPath, <<>>, consolidated)
                      EXCEPT !.warned = warned]
             ELSE IF {"job_id", "snapshot_date"} \subseteq consolidated.cols
             THEN [Outcome("load", "ok", NoPath, <<>>, DropDuplicates(consolidated))
                      EXCEPT !.warned = warned]
             ELSE [Outcome("load", "KeyError", NoPath, <<>>, EmptyDf)
                      EXCEPT !.warned = warned]

\* load_raw(base_dir=root), the parts enumerated in `order`.
LoadRaw(order) ==
    /\ last' = LoadRawResult(rootExists, files, corrupt, order)
    /\ UNCHANGED <<today, clock, rootExists, dirs, files, used, keysWritten, jsonUsed, corrupt>>
    /\ UNCHANGED <<writers, scrapeVars>>

-----------------------------------------------------------------------------
(* The store: load_clean.                                                  *)

\* The placeholder columns of the empty frame load_clean returns for a
\* missing root.
CLEAN_PLACEHOLDER_COLS ==
    {"job_id", "snapshot_date", "title", "department", "employment_type",
     "salary_min", "salary_max", "seniority", "location", "departments", "offices"}

\* The columns load_clean drops from every part.
CLEAN_DROP_COLS == {"id", "internal_job_id", "metadata", "data_compliance", "company_name"}

\* The per-part step of load_clean: the noisy columns are dropped, the
\* identifier is left as it is.
CleanPart(df) == Drop(df, CLEAN_DROP_COLS)

\* Mutant of CleanOutcome: drop_duplicates is called whatever the columns,
\* and raises KeyError when one of the two is missing.
CleanOutcomeStrict(consolidated) ==
    IF {"job_id", "snapshot_date"} \subseteq consolidated.cols
    THEN Outcome("clean", "ok", NoPath, <<>>, DropDuplicates(consolidated))
    ELSE Outcome("clean", "KeyError", NoPath, <<>>, EmptyDf)

\* if "job_id" in consolidated.columns and "snapshot_date" in
\* consolidated.columns: drop_duplicates(...); return consolidated
CleanOutcome(consolidated) ==
    IF {"job_id", "snapshot_date"} \subseteq consolidated.cols
    THEN Outcome("clean", "ok", NoPath, <<>>, DropDuplicates(consolidated))
    ELSE Outcome("clean", "ok", NoPath, <<>>, consolidated)

\* The table load_clean builds from the parts enumerated in `order`, the
\* parts in `bad` being unreadable.
LoadCleanResult(exists, fs, bad, order) ==
    IF ~exists
    THEN Outcome("clean", "ok", NoPath, <<>>, [cols |-> CLEAN_PLACEHOLDER_COLS, rows |-> <<>>])
    ELSE IF order = <<>>
    THEN Outcome("clean", "ok", NoPath, <<>>, EmptyDf)
    ELSE LET read == ReadParts(order, bad)
             warned == {order[i] : i \in 1..Len(order)} \cap bad
             frames == [i \in 1..Len(read) |-> CleanPart(fs[read[i]])]
         IN  IF frames = << >>
             THEN [Outcome("clean", "ok", NoPath, <<>>, EmptyDf) EXCEPT !.warned = warned]
             ELSE [CleanOutcome(Concat(frames)) EXCEPT !.warned = warned]

\* load_clean(base_dir=root), the parts enumerated in `order`.
LoadClean(order) ==
    /\ last' = LoadCleanResult(rootExists, files, corrupt, order)
    /\ UNCHANGED <<today, clock, rootExists, dirs, files, used, keysWritten, jsonUsed, corrupt>>
    /\ UNCHANGED <<writers, scrapeVars>>

-----------------------------------------------------------------------------
(* The disk: a Parquet part becomes unreadable (truncated, overwritten by  *)
(* another program), so that pd.read_parquet raises on it.                 *)

Damage(p) ==
    /\ p \in GlobParts(files) \ corrupt
    /\ corrupt' = corrupt \cup {p}
    /\ UNCHANGED <<today, clock, rootExists, dirs, files, used, keysWritten, jsonUsed, last>>
    /\ UNCHANGED <<writers, scrapeVars>>

-----------------------------------------------------------------------------
(* The store: _store_raw of the scraper, which main() calls with the list  *)
(* scrape_sync returned.  It writes into the same layout the payloads as   *)
(* they are: no identifier is renamed, no column dropped, no duplicate     *)
(* removed.                                                                *)

\* Largest value of the clock, in seconds after midnight.
MaxClock == 1

\* The payloads _store_raw may be given: the identifier under any of its
\* names or under none, with or without a snapshot_date, with or without a
\* field write_snapshot drops.
RawRecords ==
    { [job_id |-> "1", requisition_id |-> "2", id |-> "3",
       snapshot_date |-> "D1", title |-> "a"],
      [requisition_id |-> "2", id |-> "3", snapshot_date |-> "D1", title |-> "b",
       company_name |-> "c"],
      [id |-> "3", snapshot_date |-> "D1", title |-> "a"],
      [snapshot_date |-> "D1", title |-> "a"],
      [job_id |-> "1", title |-> "a"] }

\* The batches _store_raw may still be given, the empty one included.
RawBatches(n) == SeqsUpTo(RawRecords, n)

\* if jobs and "snapshot_date" in jobs[0]: jobs[0]["snapshot_date"], else
\* today's date.
RawPartitionDate(jobs, now) ==
    IF jobs # << >> /\ "snapshot_date" \in DOMAIN jobs[1]
    THEN jobs[1]["snapshot_date"]
    ELSE now

\* The digits of strftime("%Y%m%d"): D1 is 2024-01-01, D2 the day after.
DateDigits(date) ==
    IF date = "D1" THEN <<2, 0, 2, 4, 0, 1, 0, 1>> ELSE <<2, 0, 2, 4, 0, 1, 0, 2>>

\* Two decimal digits of a number below 100.
TwoDigits(n) == <<n \div 10, n % 10>>

\* The digits of strftime("%H%M%S") for a number of seconds after midnight.
TimeDigits(seconds) ==
    TwoDigits(seconds \div 3600) \o TwoDigits((seconds % 3600) \div 60)
        \o TwoDigits(seconds % 60)

\* datetime.now(timezone.utc).strftime("%Y%m%d_%H%M%S")
Timestamp(date, seconds) == DateDigits(date) \o <<Underscore>> \o TimeDigits(seconds)

\* The body of _store_raw.  The clock is read twice: for the date of the
\* partition, when the batch names none, and for the timestamp of the file
\* name, `seconds` after midnight; `midnight` tells that the clock was read
\* twice and that the day changed between the two.  The partition directory is created, the payloads are
\* written as they are to part-<timestamp>, as Parquet or through the JSON
\* fallback; a file of that name is replaced.
StoreRawWrite(jobs, pqOk, midnight, seconds) ==
    LET snapshot_date == RawPartitionDate(jobs, today)
        later == IF midnight THEN "D2" ELSE today
        out_path == [date |-> snapshot_date, stem |-> Timestamp(later, seconds),
                     ext |-> "parquet"]
        path == IF pqOk THEN out_path ELSE [out_path EXCEPT !.ext = "json"]
    IN  /\ midnight => (today = "D1" /\ RawPartitionDate(jobs, "") = "")
        /\ today' = later
        /\ clock' = seconds
        /\ rootExists' = TRUE
        /\ dirs' = dirs \cup {snapshot_date}
        /\ files' = (path :> DataFrame(jobs)) @@ files
        /\ corrupt' = corrupt \ {path}
        /\ last' = Outcome("store_raw", "ok", path, jobs, EmptyDf)

\* _store_raw(jobs, out_dir=root); the file name is made `elapsed` seconds
\* after the previous reading of the clock, or after midnight when it
\* passes during the call.  The batch takes its length from the budget of
\* records, an empty batch one.
StoreRaw(jobs, pqOk, midnight, elapsed) ==
    LET cost == IF jobs = << >> THEN 1 ELSE Len(jobs)
        seconds == IF midnight THEN elapsed ELSE clock + elapsed
    IN  /\ cost <= MaxFaultRows - used
        /\ seconds <= MaxClock
        /\ StoreRawWrite(jobs, pqOk, midnight, seconds)
        /\ used' = used + cost
        /\ UNCHANGED <<keysWritten, jsonUsed, writers, scrapeVars>>

-----------------------------------------------------------------------------
(* The calendar: the UTC date may change between two calls.                *)

Tick ==
    /\ today = "D1"
    /\ today' = "D2"
    /\ clock' = 0
    /\ UNCHANGED <<storeVars, scrapeVars>>

-----------------------------------------------------------------------------
(* The scraper: values.                                                    *)

\* Length of the longest listing the remote API returns.
MaxStubs == 2

\* Largest concurrency argument.
MaxConc == 2

MAX_RETRIES == 3

\* The job ids of the listing, by position.
IdNames == <<"1", "2", "3", "4", "5">>

\* A listing stub: with the id of its position, or without an id.
StubsAt(i) == {[id |-> IdNames[i]], [title |-> "x"]}

\* The jobs arrays the list endpoint may return.
Listings ==
    {s \in SeqsUpTo(UNION {StubsAt(i) : i \in 1..MaxStubs}, MaxStubs) :
        \A i \in 1..Len(s) : s[i] \in StubsAt(i)}

\* The JSON bodies the list endpoint may return: an empty object, an object
\* without a jobs array, an object with one.
ListingBodies == {<< >>, [meta |-> "m"]} \cup {[jobs |-> s] : s \in Listings}

\* The JSON bodies the detail endpoint may return for a job: the plain
\* posting, or one that already carries a snapshot_date field of its own.
DetailBodies(job_id) ==
    { [id |-> job_id, title |-> "t"],
      [id |-> job_id, title |-> "t", snapshot_date |-> "D0"] }

\* What one HTTP request may do: a JSON body, a transport error
\* (aiohttp.ClientError), a timeout (asyncio.TimeoutError), HTTP 429, another
\* HTTP error status, an empty body, a body that is not valid JSON.
Responses ==
    {"ok", "transport", "timeout", "http429", "httperror", "empty", "badjson"}

\* The responses that raise inside the try block an exception the except
\* clause catches: aiohttp.ClientError (ClientResponseError is one) or
\* asyncio.TimeoutError.
Caught(r) == r \in {"transport", "timeout", "http429", "httperror"}

\* The value a _fetch_json call returns: None, or a decoded body.
NoneRet == [none |-> TRUE, body |-> << >>]

JsonRet(body) == [none |-> FALSE, body |-> body]

\* A _fetch_json call: where it stands, the loop variable attempt, the
\* number of HTTP requests it has issued, the value it returned; delay: the
\* interval, in milliseconds, in which the length of the asyncio.sleep it
\* is in lies, NoDelay outside one.  pc: "idle", "acquire" (about to enter
\* the semaphore), "waiting" (blocked in it), "inflight", "backoff", "done",
\* "raised", "cancelled".
NoDelay == [lo |-> 0, hi |-> 0]

Call(pc, attempt, sent, ret) ==
    [pc |-> pc, attempt |-> attempt, sent |-> sent, ret |-> ret, delay |-> NoDelay]

IdleCall == Call("idle", 0, 0, NoneRet)

\* The _fetch_json calls of one run.
Calls == 0..MaxStubs

\* The bodies the request of call i may be answered with: a JSON body of
\* its endpoint when the answer is "ok", no body to decode otherwise.
BodiesOf(i, r) ==
    IF r # "ok" THEN {<< >>}
    ELSE IF i = 0 THEN ListingBodies
    ELSE IF i \in 1..Len(tasks) THEN DetailBodies(tasks[i])
    ELSE {}

-----------------------------------------------------------------------------
(* The scraper: the limiter, an asyncio.Semaphore.                         *)

\* The semaphore: _value, the deque _waiters (the calls blocked in acquire,
\* oldest first) and, among them, the calls whose future has its result set
\* and that have not run since.
Semaphore(value, queue, handed) == [value |-> value, waiters |-> queue, woken |-> handed]

\* Semaphore.locked(): no permit is left, or a call is waiting.
Locked(sem) == sem.value = 0 \/ sem.waiters # << >>

\* Semaphore._wake_up_next(): the first waiter whose future is not done gets
\* the permit: the value is decremented on its behalf and its future is set.
WakeUpNext(sem) ==
    LET pending == SelectSeq(sem.waiters, LAMBDA j : j \notin sem.woken)
    IN  IF pending = << >> THEN sem
        ELSE [sem EXCEPT !.value = @ - 1, !.woken = @ \cup {Head(pending)}]

\* Semaphore.release()
Release(sem) == WakeUpNext([sem EXCEPT !.value = @ + 1])

\* The end of Semaphore.acquire() for a waiter that was woken: it leaves the
\* deque and, when a permit is left, wakes the next waiter.
Resumed(sem, i) ==
    LET left == [sem EXCEPT !.waiters = SelectSeq(@, LAMBDA j : j # i),
                            !.woken = @ \ {i}]
    IN  IF left.value > 0 THEN WakeUpNext(left) ELSE left

-----------------------------------------------------------------------------
(* The scraper: _fetch_json.                                               *)

\* The coroutines of the run are stepped: scrape() has not returned.  After
\* scrape() raised, the tasks asyncio.gather started are not cancelled by
\* it and go on in the caller's event loop.
Running == phase \in {"listing", "detail", "raised"}

\* Task j has run its first step: the event loop steps the tasks of
\* asyncio.gather in the order of their creation, before any answer is
\* delivered.
Started(j) == ~(fetch[j].pc = "acquire" /\ fetch[j].attempt = 1)

\* Mutant of Acquire: the request is issued without waiting for a permit.
AcquireUnbounded(i) ==
    /\ Running
    /\ fetch[i].pc = "acquire"
    /\ \A j \in 1..(i - 1) : Started(j)
    /\ permits' = permits - 1
    /\ fetch' = [fetch EXCEPT ![i].pc = "inflight", ![i].sent = @ + 1]
    /\ UNCHANGED <<today, clock, storeVars, phase, conc, waiters, woken, tasks, result, overtook>>

\* async with semaphore: ... session.get(url): the call takes a permit and
\* issues its request, or joins the waiters when the semaphore is locked.
Acquire(i) ==
    /\ Running
    /\ fetch[i].pc = "acquire"
    /\ \A j \in 1..(i - 1) : Started(j)
    /\ IF Locked(Semaphore(permits, waiters, woken))
       THEN /\ waiters' = Append(waiters, i)
            /\ fetch' = [fetch EXCEPT ![i].pc = "waiting"]
            /\ UNCHANGED permits
       ELSE /\ permits' = permits - 1
            /\ fetch' = [fetch EXCEPT ![i].pc = "inflight", ![i].sent = @ + 1]
            /\ UNCHANGED waiters
    /\ UNCHANGED <<today, clock, storeVars, phase, conc, woken, tasks, result, overtook>>

\* A waiter that was handed a permit runs again: acquire() returns and the
\* request is issued.
Resume(i) ==
    /\ Running
    /\ fetch[i].pc = "waiting"
    /\ i \in woken
    /\ LET sem == Resumed(Semaphore(permits, waiters, woken), i)
       IN  /\ permits' = sem.value
           /\ waiters' = sem.waiters
           /\ woken' = sem.woken
    /\ fetch' = [fetch EXCEPT ![i].pc = "inflight", ![i].sent = @ + 1]
    /\ UNCHANGED <<today, clock, storeVars, phase, conc, tasks, result, overtook>>

\* Mutant of GiveUp: one attempt more before giving up.
GiveUpLate(attempt) == attempt = MAX_RETRIES + 1

\* if attempt == MAX_RETRIES: return None
GiveUp(attempt) == attempt = MAX_RETRIES

\* The call after its request was answered with r (body: the JSON body of
\* an "ok" answer).
AfterResponse(call, r, body) ==
    IF r = "ok" THEN [call EXCEPT !.pc = "done", !.ret = JsonRet(body)]
    ELSE IF r = "empty" THEN [call EXCEPT !.pc = "done", !.ret = NoneRet]
    ELSE IF Caught(r)
    THEN IF GiveUp(call.attempt)
         THEN [call EXCEPT !.pc = "done", !.ret = NoneRet]
         ELSE [call EXCEPT !.pc = "backoff"]
    ELSE \* resp.json() raises json.JSONDecodeError, a ValueError
         [call EXCEPT !.pc = "raised"]

\* BACKOFF_INITIAL = 0.5 seconds, in milliseconds.
BACKOFF_INITIAL == 500

\* The upper end of random.uniform(0, 0.5), in milliseconds; the lower is 0.
JITTER_MAX == 500

\* Mutant of Backoff: the exponent is the attempt, not the attempt less one.
BackoffFromAttempt(attempt, jitter) == BACKOFF_INITIAL * 2 ^ attempt + jitter

\* backoff = BACKOFF_INITIAL * 2 ** (attempt - 1) + random.uniform(0, 0.5)
Backoff(attempt, jitter) == BACKOFF_INITIAL * 2 ^ (attempt - 1) + jitter

\* await asyncio.sleep(backoff), for a call the except clause did not end.
\* The jitter is any real number of its interval: the call keeps the
\* interval the delay lies in, from the jitter 0 to the jitter JITTER_MAX.
Sleep(call) ==
    IF call.pc = "backoff"
    THEN [call EXCEPT !.delay = [lo |-> Backoff(call.attempt, 0),
                                 hi |-> Backoff(call.attempt, JITTER_MAX)]]
    ELSE call

\* Call i, in the state `call` its answer leaves it in, has ended while a
\* task created before it has not: asyncio.gather runs the tasks
\* concurrently and they end in any order.
Overtakes(i, call) ==
    /\ call.pc = "done"
    /\ \E j \in 1..(i - 1) : fetch[j].pc # "done"

\* Mutant of Respond: the permit is released after a decoded body only, an
\* attempt that failed keeps it.
RespondKeepingPermit(i, r, body) ==
    /\ Running
    /\ fetch[i].pc = "inflight"
    /\ \A j \in 1..Len(tasks) : Started(j)
    /\ LET sem == IF r = "ok" THEN Release(Semaphore(permits, waiters, woken))
                  ELSE Semaphore(permits, waiters, woken)
       IN  /\ permits' = sem.value
           /\ woken' = sem.woken
    /\ fetch' = [fetch EXCEPT ![i] = Sleep(AfterResponse(@, r, body))]
    /\ overtook' = (overtook \/ Overtakes(i, AfterResponse(fetch[i], r, body)))
    /\ UNCHANGED <<today, clock, storeVars, phase, conc, waiters, tasks, result>>

\* The request of call i is answered; the permit is released on every exit
\* from the async with block, and handed to the first waiter if there is
\* one.
Respond(i, r, body) ==
    /\ Running
    /\ fetch[i].pc = "inflight"
    /\ \A j \in 1..Len(tasks) : Started(j)
    /\ LET sem == Release(Semaphore(permits, waiters, woken))
       IN  /\ permits' = sem.value
           /\ woken' = sem.woken
    /\ fetch' = [fetch EXCEPT ![i] = Sleep(AfterResponse(@, r, body))]
    /\ overtook' = (overtook \/ Overtakes(i, AfterResponse(fetch[i], r, body)))
    /\ UNCHANGED <<today, clock, storeVars, phase, conc, waiters, tasks, result>>

\* await asyncio.sleep(backoff) is over: the next iteration of the loop.
Wake(i) ==
    /\ Running
    /\ fetch[i].pc = "backoff"
    /\ fetch' = [fetch EXCEPT ![i].pc = "acquire", ![i].attempt = @ + 1, ![i].delay = NoDelay]
    /\ UNCHANGED <<today, clock, storeVars, phase, conc, permits, waiters, woken, tasks, result,
                   overtook>>

-----------------------------------------------------------------------------
(* The scraper: scrape.                                                    *)

\* semaphore = asyncio.Semaphore(concurrency); the listing fetch starts.
Start ==
    /\ phase = "new"
    /\ phase' = "listing"
    /\ permits' = conc
    /\ fetch' = [fetch EXCEPT ![0] = Call("acquire", 1, 0, NoneRet)]
    /\ UNCHANGED <<today, clock, storeVars, conc, waiters, woken, tasks, result, overtook>>

\* _fetch_job_list: [] when the payload is falsy or has no "jobs".
JobList(ret) ==
    IF ret.none \/ DOMAIN ret.body = {} \/ "jobs" \notin DOMAIN ret.body
    THEN << >>
    ELSE ret.body["jobs"]

\* [job["id"] for job in jobs_basic if "id" in job]
IdsOf(jobs_basic) ==
    LET withId == SelectSeq(jobs_basic, LAMBDA job : "id" \in DOMAIN job)
    IN  [k \in 1..Len(withId) |-> withId[k]["id"]]

\* Mutant of ListingReturned: no early return, an empty listing goes on to
\* the gather over no task.
ListingReturnedNoEarlyExit ==
    /\ phase = "listing"
    /\ fetch[0].pc = "done"
    /\ LET jobs_basic == JobList(fetch[0].ret)
       IN  /\ phase' = "detail"
           /\ tasks' = IdsOf(jobs_basic)
           /\ fetch' = [i \in Calls |->
                          IF i \in 1..Len(IdsOf(jobs_basic))
                          THEN Call("acquire", 1, 0, NoneRet)
                          ELSE fetch[i]]
           /\ UNCHANGED result
    /\ UNCHANGED <<today, clock, storeVars, conc, permits, waiters, woken, overtook>>

\* The listing call returned: return [] at once, or schedule the detail
\* fetches.
ListingReturned ==
    /\ phase = "listing"
    /\ fetch[0].pc = "done"
    /\ LET jobs_basic == JobList(fetch[0].ret)
       IN  IF jobs_basic = << >>
           THEN /\ phase' = "returned"
                /\ result' = << >>
                /\ UNCHANGED <<tasks, fetch>>
           ELSE /\ phase' = "detail"
                /\ tasks' = IdsOf(jobs_basic)
                /\ fetch' = [i \in Calls |->
                               IF i \in 1..Len(IdsOf(jobs_basic))
                               THEN Call("acquire", 1, 0, NoneRet)
                               ELSE fetch[i]]
                /\ UNCHANGED result
    /\ UNCHANGED <<today, clock, storeVars, conc, permits, waiters, woken, overtook>>

\* The listing call raised: the exception leaves scrape().
ListingRaised ==
    /\ phase = "listing"
    /\ fetch[0].pc = "raised"
    /\ phase' = "raised"
    /\ UNCHANGED <<today, clock, storeVars, conc, permits, waiters, woken, tasks, fetch, result,
                   overtook>>

\* Mutant of Stamp: a snapshot_date the payload already has is kept.
StampIfAbsent(job, snapshot_date) ==
    [k \in DOMAIN job \cup {"snapshot_date"} |->
        IF k \in DOMAIN job THEN job[k] ELSE snapshot_date]

\* job["snapshot_date"] = snapshot_date
Stamp(job, snapshot_date) ==
    [k \in DOMAIN job \cup {"snapshot_date"} |->
        IF k = "snapshot_date" THEN snapshot_date ELSE job[k]]

RECURSIVE EnrichAll(_, _)
\* Mutant of Enrich: a failed fetch leaves a record holding only the date.
EnrichAll(detailed_jobs, snapshot_date) ==
    IF detailed_jobs = << >> THEN << >>
    ELSE <<Stamp(Head(detailed_jobs).body, snapshot_date)>>
             \o EnrichAll(Tail(detailed_jobs), snapshot_date)

RECURSIVE EnrichPrepending(_, _)
\* Mutant of Enrich: every record is put at the front of the list.
EnrichPrepending(detailed_jobs, snapshot_date) ==
    IF detailed_jobs = << >> THEN << >>
    ELSE IF Head(detailed_jobs).none
         THEN EnrichPrepending(Tail(detailed_jobs), snapshot_date)
         ELSE EnrichPrepending(Tail(detailed_jobs), snapshot_date)
                  \o <<Stamp(Head(detailed_jobs).body, snapshot_date)>>

RECURSIVE Enrich(_, _)
\* The loop over detailed_jobs: None is skipped, a payload is stamped.
Enrich(detailed_jobs, snapshot_date) ==
    IF detailed_jobs = << >> THEN << >>
    ELSE IF Head(detailed_jobs).none
         THEN Enrich(Tail(detailed_jobs), snapshot_date)
         ELSE <<Stamp(Head(detailed_jobs).body, snapshot_date)>>
                  \o Enrich(Tail(detailed_jobs), snapshot_date)

\* Mutant of GatherReturned: scrape() goes on as soon as one task is done.
GatherReturnedEarly ==
    /\ phase = "detail"
    /\ \/ tasks = << >>
       \/ \E i \in 1..Len(tasks) : fetch[i].pc = "done"
    /\ phase' = "returned"
    /\ result' = Enrich([i \in 1..Len(tasks) |-> fetch[i].ret], today)
    /\ UNCHANGED <<today, clock, storeVars, conc, permits, waiters, woken, tasks, fetch, overtook>>

\* asyncio.gather(*tasks) returned: every task is done.  The date is read
\* once, then the records are stamped and returned.
GatherReturned ==
    /\ phase = "detail"
    /\ \A i \in 1..Len(tasks) : fetch[i].pc = "done"
    /\ phase' = "returned"
    /\ result' = Enrich([i \in 1..Len(tasks) |-> fetch[i].ret], today)
    /\ UNCHANGED <<today, clock, storeVars, conc, permits, waiters, woken, tasks, fetch, overtook>>

\* asyncio.gather(*tasks) raised: the exception of a task leaves scrape().
\* The other tasks are left as they are.
GatherRaised ==
    /\ phase = "detail"
    /\ \E i \in 1..Len(tasks) : fetch[i].pc = "raised"
    /\ phase' = "raised"
    /\ UNCHANGED <<today, clock, storeVars, conc, permits, waiters, woken, tasks, fetch, result,
                   overtook>>

-----------------------------------------------------------------------------
(* The scraper: scrape_sync and main.                                      *)

\* The calls that have not ended.
Pending == {i \in Calls : fetch[i].pc \in {"acquire", "waiting", "inflight", "backoff"}}

\* scrape_sync: asyncio.run(scrape(...)).  When scrape() has raised,
\* asyncio.run cancels the tasks still pending before it re-raises: a
\* request in flight is abandoned and its permit released, a waiter leaves
\* the semaphore, giving back the permit it was handed, a sleep is dropped.
CancelPending ==
    /\ phase = "raised"
    /\ Pending # {}
    /\ fetch' = [i \in Calls |->
                    IF i \in Pending
                    THEN [fetch[i] EXCEPT !.pc = "cancelled", !.delay = NoDelay]
                    ELSE fetch[i]]
    /\ permits' = permits + Cardinality({i \in Calls : fetch[i].pc = "inflight"} \cup woken)
    /\ waiters' = << >>
    /\ woken' = {}
    /\ UNCHANGED <<today, clock, storeVars, phase, conc, tasks, result, overtook>>

\* main(): path = _store_raw(jobs, out_dir=output_dir), jobs the list
\* scrape_sync returned.
MainStoreRaw(pqOk, midnight) ==
    /\ phase = "returned"
    /\ last.op # "store_raw"
    /\ StoreRawWrite(result, pqOk, midnight, IF midnight THEN 0 ELSE clock)
    /\ UNCHANGED <<used, keysWritten, jsonUsed, writers, scrapeVars>>

-----------------------------------------------------------------------------
(* The store specification: an initially empty (or missing) root, then any *)
(* sequence of calls by a single caller.                                   *)

\* No scrape() run.
ScrapeIdle ==
    /\ phase = "off"
    /\ conc = 0
    /\ permits = 0
    /\ waiters = << >>
    /\ woken = {}
    /\ tasks = << >>
    /\ fetch = [i \in Calls |-> IdleCall]
    /\ result = << >>
    /\ overtook = FALSE

StoreInit ==
    /\ today = "D1"
    /\ clock = 0
    /\ rootExists \in BOOLEAN
    /\ dirs = {}
    /\ files = << >>
    /\ used = 0
    /\ keysWritten = {}
    /\ jsonUsed = FALSE
    /\ corrupt = {}
    /\ writers = [w \in Writers |-> IdleWriter]
    /\ last = NoCall

StoreNext ==
    \/ \E jobs \in Batches(MaxRows - used), pqOk \in BOOLEAN : WriteSnapshot(jobs, pqOk)
    \/ \E order \in Enumerations(GlobParts(files)) : LoadRaw(order)
    \/ Tick

Init == StoreInit /\ ScrapeIdle

Next == StoreNext

Spec == Init /\ [][Next]_vars

-----------------------------------------------------------------------------
(* The store on a faulty disk: the same calls, and part files that get     *)
(* damaged between them.                                                   *)

FaultNext ==
    \/ \E jobs \in Batches(MaxFaultRows - used), pqOk \in BOOLEAN : WriteSnapshot(jobs, pqOk)
    \/ \E order \in Enumerations(GlobParts(files)) : LoadRaw(order)
    \/ \E p \in GlobParts(files) : Damage(p)

FaultSpec == Init /\ [][FaultNext]_vars

-----------------------------------------------------------------------------
(* The store next to the scraper: the same calls on a root into which      *)
(* _store_raw writes as well, and load_clean.                              *)

LegacyNext ==
    \/ \E jobs \in Batches(MaxFaultRows - used), pqOk \in BOOLEAN : WriteSnapshot(jobs, pqOk)
    \/ \E jobs \in RawBatches(MaxFaultRows - used), pqOk, midnight \in BOOLEAN,
             elapsed \in {0, 1} :
          StoreRaw(jobs, pqOk, midnight, elapsed)
    \/ \E order \in Enumerations(GlobParts(files)) : LoadRaw(order)
    \/ \E order \in Enumerations(GlobParts(files)) : LoadClean(order)

LegacySpec == Init /\ [][LegacyNext]_vars

-----------------------------------------------------------------------------
(* Two writers: two processes each call write_snapshot once on the same    *)
(* root, their steps interleaved in any order.                             *)

RaceNext ==
    \/ \E w \in Writers, jobs \in Batches(MaxRaceRows) : RaceCall(w, jobs)
    \/ \E w \in Writers : RaceMkdir(w)
    \/ \E w \in Writers : RaceScan(w)
    \/ \E w \in Writers, pqOk \in BOOLEAN : RaceToParquet(w, pqOk)
    \/ \E w \in Writers, size \in ParquetSizes : RaceParquetClose(w, size)
    \/ \E w \in Writers : RaceJsonOpen(w)
    \/ \E w \in Writers : RaceJsonClose(w)

RaceSpec == Init /\ [][RaceNext]_vars

-----------------------------------------------------------------------------
(* The scraper specification: one run of scrape(concurrency=conc).         *)

ScrapeInit ==
    /\ today = "D1"
    /\ clock = 0
    /\ rootExists = FALSE
    /\ dirs = {}
    /\ files = << >>
    /\ used = 0
    /\ keysWritten = {}
    /\ jsonUsed = FALSE
    /\ corrupt = {}
    /\ writers = [w \in Writers |-> IdleWriter]
    /\ last = NoCall
    /\ phase = "new"
    /\ conc \in 1..MaxConc
    /\ permits = 0
    /\ waiters = << >>
    /\ woken = {}
    /\ tasks = << >>
    /\ fetch = [i \in Calls |-> IdleCall]
    /\ result = << >>
    /\ overtook = FALSE

ScrapeNext ==
    \/ Start
    \/ \E i \in Calls : Acquire(i)
    \/ \E i \in Calls : Resume(i)
    \/ \E i \in Calls, r \in Responses : \E body \in BodiesOf(i, r) : Respond(i, r, body)
    \/ \E i \in Calls : Wake(i)
    \/ ListingReturned
    \/ ListingRaised
    \/ GatherReturned
    \/ GatherRaised
    \/ CancelPending
    \/ \E pqOk, midnight \in BOOLEAN : MainStoreRaw(pqOk, midnight)
    \/ Tick

ScrapeSpec == ScrapeInit /\ [][ScrapeNext]_vars

\* The steps of the run itself: everything but the calendar.
ScrapeStep ==
    \/ Start
    \/ \E i \in Calls : Acquire(i)
    \/ \E i \in Calls : Resume(i)
    \/ \E i \in Calls, r \in Responses : \E body \in BodiesOf(i, r) : Respond(i, r, body)
    \/ \E i \in Calls : Wake(i)
    \/ ListingReturned
    \/ ListingRaised
    \/ GatherReturned
    \/ GatherRaised
    \/ CancelPending
    \/ \E pqOk, midnight \in BOOLEAN : MainStoreRaw(pqOk, midnight)

\* The same run under an event loop that runs every coroutine that is
\* ready, sleeps that end, and a network on which every request is
\* answered, fails or times out (ClientTimeout(total=30)).
FairScrapeSpec ==
    /\ ScrapeInit
    /\ [][ScrapeNext]_vars
    /\ WF_vars(Start)
    /\ \A i \in Calls : WF_vars(Acquire(i))
    /\ \A i \in Calls : WF_vars(Resume(i))
    /\ \A i \in Calls :
          WF_vars(\E r \in Responses : \E body \in BodiesOf(i, r) : Respond(i, r, body))
    /\ \A i \in Calls : WF_vars(Wake(i))
    /\ WF_vars(ListingReturned \/ ListingRaised \/ GatherReturned \/ GatherRaised)

-----------------------------------------------------------------------------
(* Claims on the store.                                                    *)

\* The last call was a write_snapshot that returned a path.
WroteOk == last.op = "write" /\ last.status = "ok"

\* The last call was a load_raw that returned a table.
LoadedOk == last.op = "load" /\ last.status = "ok"

\* The batch of the last write in tabular form, before deduplication.
LastBatchRows == Normalise(last.jobs, last.path.date).rows

\* The index of the first row of `rows` carrying the pair pr.
FirstWith(rows, pr) ==
    CHOOSE k \in 1..Len(rows) :
        /\ PairOf(rows[k]) = pr
        /\ \A m \in 1..(k - 1) : PairOf(rows[m]) # pr

\* C1: the part written for a non-empty batch holds exactly one row per
\* distinct (job_id, snapshot_date) pair of the batch, and the row kept for
\* a pair is the first record of the batch carrying it.
C1_FirstOccurrenceKept ==
    WroteOk =>
        LET part == files[last.path].rows
            batch == LastBatchRows
        IN  /\ DistinctPairs(part)
            /\ Pairs(part) = Pairs(batch)
            /\ \A i \in 1..Len(part) :
                   part[i] = batch[FirstWith(batch, PairOf(part[i]))]

\* C1 witness: a batch holding two different records with the same pair
\* was written and the part is shorter than the batch.
C1_Witness ==
    /\ WroteOk
    /\ Len(files[last.path].rows) < Len(last.jobs)
    /\ \E i, j \in 1..Len(LastBatchRows) :
           /\ i < j
           /\ PairOf(LastBatchRows[i]) = PairOf(LastBatchRows[j])
           /\ LastBatchRows[i] # LastBatchRows[j]

\* C2 (as claimed): every write_snapshot call returns a path that did not
\* exist before the call, and every part file present before the call is
\* still present afterwards with the same content, whatever format the
\* calls used.
C2_PartsImmutable ==
    [][(used' # used /\ last'.status = "ok") =>
           /\ last'.path \notin DOMAIN files
           /\ \A p \in DOMAIN files : p \in DOMAIN files' /\ files'[p] = files[p]]_vars

\* C3: the table load_raw returns has exactly one row per distinct
\* (job_id, snapshot_date) pair found in the parts it read; rows that share
\* a job_id and differ in snapshot_date are all kept.
C3_LoadRawOneRowPerPair ==
    LoadedOk =>
        /\ DistinctPairs(last.table.rows)
        /\ Pairs(last.table.rows) =
               UNION {Pairs(HarmonisePart(files[p]).rows) : p \in GlobParts(files)}

\* C3 witness: a loaded table with two rows of the same job_id and
\* different snapshot_date, read from two partitions.
C3_Witness ==
    /\ LoadedOk
    /\ \E i, j \in 1..Len(last.table.rows) :
           /\ PairOf(last.table.rows[i])[1] = PairOf(last.table.rows[j])[1]
           /\ PairOf(last.table.rows[i])[2] # PairOf(last.table.rows[j])[2]
    /\ Cardinality({p.date : p \in GlobParts(files)}) = 2

\* C4: after any sequence of write_snapshot calls into an initially empty
\* root whose columnar writes all succeeded, load_raw returns exactly one
\* row per distinct (job_id, snapshot_date) pair of the written batches.
C4_WriteThenLoad ==
    (last.op = "load" /\ ~jsonUsed) =>
        /\ last.status = "ok"
        /\ DistinctPairs(last.table.rows)
        /\ Pairs(last.table.rows) = keysWritten

\* C4 witness: one batch of three records, two of them with the same pair,
\* written as Parquet and read back as two rows.
C4_Witness ==
    /\ LoadedOk
    /\ ~jsonUsed
    /\ used = 3
    /\ Cardinality(DOMAIN files) = 1
    /\ Len(last.table.rows) = 2

\* C5 (as claimed): the records of a part written through the JSON
\* fallback appear in the table load_raw returns.
C5_JsonPartsLoaded ==
    LoadedOk =>
        \A p \in DOMAIN files :
            p.ext = "json" => Pairs(files[p].rows) \subseteq Pairs(last.table.rows)

-----------------------------------------------------------------------------
(* Claims on the scraper.                                                  *)

\* The detail fetches that returned a payload.
Succeeded == {i \in 1..Len(tasks) : fetch[i].pc = "done" /\ ~fetch[i].ret.none}

\* rec is the payload body with a snapshot_date set, and nothing else.
IsStamped(rec, body) ==
    /\ DOMAIN rec = DOMAIN body \cup {"snapshot_date"}
    /\ \A k \in DOMAIN body \ {"snapshot_date"} : rec[k] = body[k]

\* C6 (as claimed): every record scrape() returns carries a non-null
\* job_id, and the job_id values of the result are the listed ids whose
\* detail fetch succeeded.
C6_RecordsCarryJobId ==
    phase = "returned" =>
        /\ \A j \in 1..Len(result) :
               "job_id" \in DOMAIN result[j] /\ result[j]["job_id"] # Null
        /\ {result[j]["job_id"] : j \in 1..Len(result)} = {tasks[i] : i \in Succeeded}

\* C7: the list scrape() returns holds exactly the payloads of the detail
\* fetches that succeeded: as many records as successes, one for every
\* success, and no record for a fetch that returned None.
C7_FailuresDropped ==
    phase = "returned" =>
        /\ Len(result) = Cardinality(Succeeded)
        /\ \A i \in Succeeded : \E j \in 1..Len(result) : IsStamped(result[j], fetch[i].ret.body)
        /\ \A j \in 1..Len(result) : \E i \in Succeeded : IsStamped(result[j], fetch[i].ret.body)

\* C7 witness: a run returned in which one detail fetch gave up after
\* MAX_RETRIES requests and another one succeeded.
C7_Witness ==
    /\ phase = "returned"
    /\ \E i \in 1..Len(tasks) : fetch[i].ret.none /\ fetch[i].sent = MAX_RETRIES
    /\ Succeeded # {}
    /\ Len(result) = Len(tasks) - 1

\* C8: all records of one scrape() run carry the same snapshot_date, a
\* date of the calendar, whatever the payloads contained.
C8_OneSnapshotDate ==
    phase = "returned" =>
        /\ \A i, j \in 1..Len(result) :
               result[i]["snapshot_date"] = result[j]["snapshot_date"]
        /\ \A j \in 1..Len(result) : result[j]["snapshot_date"] \in Dates

\* C8 witness: a run returned two records, one of whose payloads came with
\* a snapshot_date field of its own and one without.
C8_Witness ==
    /\ phase = "returned"
    /\ Len(result) >= 2
    /\ \E i, j \in Succeeded :
           /\ "snapshot_date" \in DOMAIN fetch[i].ret.body
           /\ "snapshot_date" \notin DOMAIN fetch[j].ret.body

\* C9 (as claimed): whatever the HTTP requests of the run do, scrape()
\* does not raise.
C9_NeverRaises == phase # "raised"

\* The failures C10 names: a transport error, a timeout, an HTTP 429.
Retryable == {"transport", "timeout", "http429"}

\* C10: one _fetch_json call issues at most MAX_RETRIES requests; an
\* answer with a decodable body ends the call with that body and the call
\* issues nothing further; a transport error, a timeout or an HTTP 429 on
\* an attempt before the last leads to the back-off and the next attempt,
\* and on the last attempt makes the call return None.
C10_FetchRetries ==
    /\ [](\A i \in Calls : fetch[i].sent <= MAX_RETRIES)
    /\ [][\A i \in Calls :
            /\ fetch[i].pc = "done" => fetch'[i] = fetch[i]
            /\ (fetch[i].pc = "inflight" /\ fetch'[i].pc # "inflight") =>
               \A r \in Responses : \A body \in BodiesOf(i, r) :
                   Respond(i, r, body) =>
                       /\ r = "ok" =>
                              fetch'[i].pc = "done" /\ fetch'[i].ret = JsonRet(body)
                       /\ (r \in Retryable /\ fetch[i].sent < MAX_RETRIES) =>
                              fetch'[i].pc = "backoff"
                       /\ (r \in Retryable /\ fetch[i].sent = MAX_RETRIES) =>
                              fetch'[i].pc = "done" /\ fetch'[i].ret = NoneRet]_vars

\* C10 witness: one call returned None after MAX_RETRIES requests and
\* another returned a body at its second request.
C10_Witness ==
    \E i, j \in Calls :
        /\ fetch[i].pc = "done" /\ fetch[i].ret.none /\ fetch[i].sent = MAX_RETRIES
        /\ fetch[j].pc = "done" /\ ~fetch[j].ret.none /\ fetch[j].sent = 2

\* C11: at every moment of a scrape(concurrency=c) run, the number of HTTP
\* requests in flight, listing and detail requests together, is at most c.
InFlight == {i \in Calls : fetch[i].pc = "inflight"}

C11_InFlightAtMostConcurrency ==
    phase # "off" => Cardinality(InFlight) <= conc

\* The limit is reached while another fetch waits for a permit.
C11_Witness ==
    /\ phase = "detail"
    /\ Cardinality(InFlight) = conc
    /\ \E i \in Calls : fetch[i].pc = "waiting"

\* C12: write_snapshot called with an empty batch raises an explicit error
\* and leaves the store unchanged: no directory and no file is created.
C12_EmptyBatchRejected ==
    [][(last'.op = "write" /\ last'.jobs = << >>)
          => /\ last'.status = "ValueError"
             /\ rootExists' = rootExists
             /\ dirs' = dirs
             /\ files' = files]_vars

\* An empty batch was rejected on a store whose root is still missing.
C12_Witness ==
    /\ last.op = "write"
    /\ last.jobs = << >>
    /\ last.status = "ValueError"
    /\ ~rootExists

\* C13: the path write_snapshot returns names the file that was written
\* and exists on return: the .parquet part when the columnar write
\* succeeded, the sibling with the same part number and the .json
\* extension, holding the same deduplicated records, when it failed.
C13_ReturnedPathIsWritten ==
    [][(last'.op = "write" /\ last'.status = "ok" /\ used' # used)
          => LET date == PartitionDate(last'.jobs, today)
                 part == PartPath(date, NextIdx(files, date), "parquet")
                 \* the columnar write succeeded: the new .parquet part is there
                 succeeded == part \in DOMAIN files'
                 written == IF succeeded THEN part ELSE [part EXCEPT !.ext = "json"]
                 records == KeepFirst(Normalise(last'.jobs, date).rows, {})
             IN  /\ part \notin DOMAIN files
                 /\ last'.path = written
                 /\ written \in DOMAIN files'
                 /\ files'[written].rows = records
                 /\ \A p \in DOMAIN files \ {written} :
                        p \in DOMAIN files' /\ files'[p] = files[p]]_vars

\* A fallback write returned the .json sibling, which holds the records.
C13_Witness ==
    /\ WroteOk
    /\ last.path.ext = "json"
    /\ last.path \in DOMAIN files
    /\ Len(last.jobs) > Len(files[last.path].rows)

\* C14: load_raw on a root directory that does not exist returns an empty
\* table with the columns job_id, snapshot_date, title, department,
\* employment_type, salary_min, salary_max, seniority; it does not raise and
\* creates nothing on disk.
C14_MissingRootPlaceholder ==
    (last.op = "load" /\ ~rootExists)
    => /\ last.status = "ok"
       /\ last.table.rows = << >>
       /\ last.table.cols = {"job_id", "snapshot_date", "title", "department",
                             "employment_type", "salary_min", "salary_max",
                             "seniority"}
       /\ dirs = {}
       /\ DOMAIN files = {}

\* load_raw returned while the root is missing.
C14_Witness ==
    /\ last.op = "load"
    /\ ~rootExists
    /\ last.table.cols # {}

\* C15: when the listing request permanently fails, or its response is
\* empty, lacks "jobs", or has an empty "jobs" array, scrape() returns the
\* empty list at once, issues no detail request and does not raise.
ListingGaveNothing ==
    /\ fetch[0].pc = "done"
    /\ \/ fetch[0].ret.none
       \/ DOMAIN fetch[0].ret.body = {}
       \/ "jobs" \notin DOMAIN fetch[0].ret.body
       \/ fetch[0].ret.body["jobs"] = << >>

C15_EmptyListingReturnsEmpty ==
    ListingGaveNothing
    => /\ phase \in {"listing", "returned"}
       /\ result = << >>
       /\ tasks = << >>
       /\ \A i \in Calls \ {0} : fetch[i] = IdleCall

\* scrape() returned after the listing failed on all its attempts.
C15_Witness ==
    /\ phase = "returned"
    /\ fetch[0].pc = "done"
    /\ fetch[0].ret.none
    /\ fetch[0].sent = MAX_RETRIES

\* C16: the phases of scrape() are strictly ordered: no detail request is
\* issued before the listing call returned; exactly one detail fetch is
\* scheduled per listing stub that carries an id, none for a stub without;
\* and scrape() returns only after every scheduled detail fetch has either
\* succeeded or permanently failed.
StubsListed == IF ListingGaveNothing \/ fetch[0].pc # "done"
               THEN << >> ELSE fetch[0].ret.body["jobs"]

C16_PhasesOrdered ==
    /\ fetch[0].pc # "done" => \A i \in Calls \ {0} : fetch[i] = IdleCall
    /\ phase \in {"detail", "returned"}
       => /\ Len(tasks) = Cardinality({k \in 1..Len(StubsListed) :
                                          "id" \in DOMAIN StubsListed[k]})
          /\ \A k \in 1..Len(StubsListed) :
                "id" \in DOMAIN StubsListed[k]
                => \E i \in 1..Len(tasks) :
                      /\ tasks[i] = StubsListed[k]["id"]
                      /\ i = Cardinality({j \in 1..k : "id" \in DOMAIN StubsListed[j]})
          /\ \A i \in Calls \ {0} : (fetch[i] # IdleCall) <=> (i <= Len(tasks))
    /\ phase = "returned"
       => \A i \in 1..Len(tasks) : fetch[i].pc = "done"

\* scrape() returned after its detail fetches, one of them failed for good,
\* for a listing that also held a stub without an id.
C16_Witness ==
    /\ phase = "returned"
    /\ Len(tasks) >= 1
    /\ Len(StubsListed) > Len(tasks)
    /\ \E i \in 1..Len(tasks) : fetch[i].ret.none /\ fetch[i].sent = MAX_RETRIES

\* C17: write_snapshot numbers the new part as the highest index among the
\* part files already in the target partition plus one, or 0 when the
\* partition has none, zero-padded to 3 digits; the index depends only on
\* the target partition, so the k-th write to a partition gets index k-1.
PartFilesOf(fs, date) == {p \in DOMAIN fs : p.date = date}

C17_PartNumbering ==
    [][(last'.op = "write" /\ last'.status = "ok" /\ used' # used)
          => LET date == last'.path.date
                 parts == PartFilesOf(files, date)
                 index == IF parts = {} THEN <<0>>
                          ELSE IntSucc(IntMax({IntOf(p.stem) : p \in parts}))
             IN  last'.path.stem = PadLeft(index, 3)]_vars

\* C18: for a non-empty batch in which every record carries at least one of
\* job_id, requisition_id, id, every row of the part write_snapshot writes
\* has a non-null job_id and a non-null snapshot_date, also when the records
\* do not all carry the same fields.
EveryRecordIdentified(jobs) ==
    /\ jobs # << >>
    /\ \A k \in 1..Len(jobs) :
          DOMAIN jobs[k] \cap {"job_id", "requisition_id", "id"} # {}

C18_RowsCarryKey ==
    (last.op = "write" /\ EveryRecordIdentified(last.jobs))
    => /\ last.status = "ok"
       /\ last.path \in DOMAIN files
       /\ \A k \in 1..Len(files[last.path].rows) :
             /\ files[last.path].rows[k]["job_id"] # Null
             /\ files[last.path].rows[k]["snapshot_date"] # Null

\* C19: every record stored in a part under the partition directory
\* snapshot_date=D has snapshot_date equal to D, after any sequence of
\* write_snapshot calls and for any batch, mixed dates included.
C19_RowsMatchPartition ==
    \A p \in DOMAIN files :
        \A k \in 1..Len(files[p].rows) :
            files[p].rows[k]["snapshot_date"] = p.date

\* C20: in load_raw a part file that cannot be parsed is skipped and does
\* not abort the load: the result is exactly the consolidation of the
\* remaining readable parts, and when no part is readable, or the root
\* exists and holds no matching part file, the result is an empty table
\* rather than an error.
C20_UnreadablePartsSkipped ==
    [][\A order \in Enumerations(GlobParts(files)) :
          (rootExists /\ LoadRaw(order))
          => LET readable == GlobParts(files) \ corrupt
                 rows == last'.table.rows
             IN  /\ last'.status = "ok"
                 /\ readable = {} => last'.table = EmptyDf
                 /\ DistinctPairs(rows)
                 /\ Pairs(rows) = UNION {Pairs(files[p].rows) : p \in readable}
                 /\ \A k \in 1..Len(rows) :
                        \E p \in readable : \E j \in 1..Len(files[p].rows) :
                            \A c \in DOMAIN files[p].rows[j] \ DROP_COLS :
                                rows[k][c] = files[p].rows[j][c]]_vars

\* A load skipped a damaged part and returned the rows of a readable one.
C20_Witness ==
    /\ last.op = "load"
    /\ last.status = "ok"
    /\ last.warned # {}
    /\ Len(last.table.rows) >= 1

-----------------------------------------------------------------------------
(* Claims on the store with the parts _store_raw writes.                   *)

\* The identifier of a row by the rule of the claim: job_id when the row
\* has one, otherwise requisition_id, otherwise id.
CanonicalId(row) ==
    IF "job_id" \in DOMAIN row THEN row["job_id"]
    ELSE IF "requisition_id" \in DOMAIN row THEN row["requisition_id"]
    ELSE IF "id" \in DOMAIN row THEN row["id"]
    ELSE Null

\* The (identifier, snapshot_date) pairs of the rows of a part, by that rule.
CanonicalPairs(df) ==
    {<<CanonicalId(df.rows[k]), PairOf(df.rows[k])[2]>> : k \in 1..Len(df.rows)}

\* Every record of the batch carries the same fields.
SameFields(jobs) == \A i, j \in 1..Len(jobs) : DOMAIN jobs[i] = DOMAIN jobs[j]

NoisyCols == {"id", "internal_job_id", "metadata", "data_compliance", "company_name"}

\* C21: the per-part harmonisation of load_raw agrees with the one of
\* write_snapshot on every column set: an existing job_id is kept, otherwise
\* requisition_id becomes job_id, otherwise id does; and the columns id,
\* internal_job_id, metadata, data_compliance and company_name never appear
\* in a written part nor in the consolidated table.
C21_HarmonisationAgrees ==
    /\ (last.op = "write" /\ last.status = "ok")
       => /\ files[last.path].cols \cap NoisyCols = {}
          /\ SameFields(last.jobs)
             => {r["job_id"] : r \in {files[last.path].rows[k] :
                                         k \in 1..Len(files[last.path].rows)}}
                = {CanonicalId(last.jobs[k]) : k \in 1..Len(last.jobs)}
    /\ (rootExists /\ last.op = "load" /\ last.status = "ok")
       => \A order \in Enumerations(GlobParts(files)) :
             last = LoadRawResult(rootExists, files, corrupt, order)
             => /\ last.table.cols \cap NoisyCols = {}
                /\ Pairs(last.table.rows)
                   = UNION {CanonicalPairs(files[p]) : p \in GlobParts(files) \ corrupt}

\* load_raw consolidated a part that holds its identifier as
\* requisition_id, next to a company_name, with a part write_snapshot wrote.
C21_Witness ==
    /\ last.op = "load"
    /\ last.status = "ok"
    /\ {"job_id", "title"} \subseteq last.table.cols
    /\ \E i \in 1..Len(last.table.rows) :
          /\ last.table.rows[i]["job_id"] = "2"
          /\ last.table.rows[i]["title"] = "b"
    /\ "company_name" \notin last.table.cols
    /\ keysWritten # {}

\* The rows load_clean read, in the order of the enumeration, the noisy
\* columns left out.
RowsRead(order) ==
    LET read == SelectSeq(order, LAMBDA p : p \notin corrupt)
    IN  Concat([i \in 1..Len(read) |-> Drop(files[read[i]], NoisyCols)])

\* C22: load_clean on a store whose consolidated columns lack job_id or
\* snapshot_date returns all rows of all readable parts, without
\* deduplication and without raising; when both columns are present it
\* deduplicates on (job_id, snapshot_date) keeping the first occurrence.
C22_LoadCleanTolerant ==
    (rootExists /\ last.op = "clean")
    => \A order \in Enumerations(GlobParts(files)) :
          last = LoadCleanResult(rootExists, files, corrupt, order)
          => LET all == RowsRead(order)
                 rows == last.table.rows
             IN  /\ last.status = "ok"
                 /\ IF {"job_id", "snapshot_date"} \subseteq all.cols
                    THEN /\ DistinctPairs(rows)
                         /\ Pairs(rows) = Pairs(all.rows)
                         /\ \A i \in 1..Len(rows) :
                                rows[i] = all.rows[FirstWith(all.rows, PairOf(rows[i]))]
                    ELSE rows = all.rows

\* load_clean returned two rows alike from two parts without a job_id.
C22_Witness ==
    /\ last.op = "clean"
    /\ last.status = "ok"
    /\ "job_id" \notin last.table.cols
    /\ Len(last.table.rows) = 2
    /\ last.table.rows[1] = last.table.rows[2]

\* C23: load_clean is the read path of load_raw with one addition only: on
\* every store on which load_raw returns a table, load_clean on the same
\* root returns the same table, stores whose parts carry the identifier as
\* requisition_id or id included.
C23_LoadCleanLikeLoadRaw ==
    [][(last'.op = "clean" /\ files' = files)
          => \A order \in Enumerations(GlobParts(files)) :
                (LoadClean(order) /\ LoadRawResult(rootExists, files, corrupt, order).status = "ok")
                => /\ last'.status = "ok"
                   /\ last'.table = LoadRawResult(rootExists, files, corrupt, order).table]_vars

-----------------------------------------------------------------------------
(* Claims on concurrent writers.                                           *)

\* Both calls returned a path, and the same one.
SamePartTwice ==
    /\ \A w \in Writers : writers[w].pc = "done" /\ writers[w].seq > 0
    /\ writers[1].ret = writers[2].ret

\* C24: part numbering is not safe under concurrent writers: when two
\* write_snapshot calls run against the same partition and both scan it
\* before either writes, both choose the same part number and the later
\* write replaces the earlier one, so that one batch is lost; the creation
\* of the partition directory never fails because the other writer created
\* the directory first.
C24_ConcurrentWritersCollide ==
    /\ \A w \in Writers : writers[w].status # "FileExistsError"
    /\ (/\ \A w \in Writers : writers[w].pc = "write"
        /\ writers[1].date = writers[2].date)
       => writers[1].out_path = writers[2].out_path
    /\ SamePartTwice
       => \E w \in Writers :
             /\ writers[w].seq = 2
             /\ DOMAIN files = {writers[w].ret}
             /\ writers[w].ret \notin corrupt
                => files[writers[w].ret] =
                       DropDuplicates(Normalise(writers[w].jobs, writers[w].date))

\* Both writers found the partition empty, the second met the directory
\* the first had created, both returned the same path, the part is
\* readable and no row of the earlier batch is left in the store.
C24_Witness ==
    /\ SamePartTwice
    /\ writers[1].ret.ext = "parquet"
    /\ writers[1].ret \notin corrupt
    /\ \E w \in Writers :
          /\ writers[w].seq = 1
          /\ \A p \in DOMAIN files :
                Pairs(Normalise(writers[w].jobs, writers[w].date).rows)
                    \cap Pairs(files[p].rows) = {}

-----------------------------------------------------------------------------
(* Claims on the back-off, the limiter and the termination of scrape().    *)

\* C25: in _fetch_json the back-off after the k-th failed attempt (k = 1, 2)
\* is 0.5 * 2^(k-1) seconds plus a jitter between 0 and 0.5 seconds: between
\* 0.5 and 1.0 s after the first failure, between 1.0 and 1.5 s after the
\* second; no back-off is taken after the third failed attempt nor after a
\* success.  Delays are in milliseconds; a call in a back-off carries the
\* interval in which its delay lies.
C25_BackoffDelays ==
    [][\A i \in Calls :
          (fetch[i].pc = "inflight" /\ fetch'[i].pc # "inflight")
          => /\ fetch'[i].pc = "backoff"
                => /\ fetch[i].attempt \in {1, 2}
                   /\ fetch[i].attempt = 1
                      => fetch'[i].delay = [lo |-> 500, hi |-> 1000]
                   /\ fetch[i].attempt = 2
                      => fetch'[i].delay = [lo |-> 1000, hi |-> 1500]
             /\ fetch'[i].pc # "backoff" => fetch'[i].delay = NoDelay
             /\ fetch[i].attempt = 3 => fetch'[i].pc # "backoff"
             /\ ~fetch'[i].ret.none => fetch'[i].pc = "done"]_vars

\* A call sleeps after its second failure while another sleeps after its
\* first.
C25_Witness ==
    \E i, j \in Calls :
        /\ fetch[i].pc = "backoff" /\ fetch[i].attempt = 2 /\ fetch[i].delay.hi = 1500
        /\ fetch[j].pc = "backoff" /\ fetch[j].attempt = 1 /\ fetch[j].delay.lo = 500

\* C26: a fetch holds a permit of the limiter only while its own request
\* is in flight: the permit is released on every exit from an attempt and
\* is never held during a back-off, so that at every moment free permits
\* plus requests in flight equal the concurrency, and all permits are free
\* when scrape() returns.
C26_PermitsBalance ==
    /\ phase \in {"listing", "detail", "returned", "raised"}
       => permits + Cardinality(InFlight) = conc
    /\ phase = "returned" => permits = conc

\* C26, amended: a fetch holds a permit of the limiter while its own
\* request is in flight, and from the moment a release hands it the permit
\* until it issues its request; the permit is released on every exit from
\* an attempt and is never held during a back-off, so that at every moment
\* free permits plus requests in flight plus permits handed to a waiter
\* that has not resumed equal the concurrency, and all permits are free
\* when scrape() returns.
C26_PermitsBalanceWithHandover ==
    /\ phase \in {"listing", "detail", "returned", "raised"}
       => permits + Cardinality(InFlight) + Cardinality(woken) = conc
    /\ \A i \in Calls : fetch[i].pc = "backoff" => i \notin woken
    /\ phase = "returned" => permits = conc

\* A release handed its permit to a waiter that has not resumed: no permit
\* is free and no request is in flight, after a failed attempt whose call
\* sleeps without a permit.
C26_Witness ==
    /\ phase = "detail"
    /\ permits = 0
    /\ InFlight = {}
    /\ woken # {}
    /\ \E i \in Calls : fetch[i].pc = "backoff"

\* The number of HTTP requests the run has issued.
RECURSIVE SentUpTo(_)
SentUpTo(i) == IF i < 0 THEN 0 ELSE fetch[i].sent + SentUpTo(i - 1)

TotalSent == SentUpTo(MaxStubs)

\* C27: for any concurrency >= 1 and any listing of N stubs, provided every
\* HTTP request eventually completes, scrape() eventually returns: no fetch
\* waits forever on the limiter, and the run issues at most 3 * (1 + N)
\* requests in total.
C27_ScrapeReturns ==
    /\ <>(phase = "returned")
    /\ [](TotalSent <= 3 * (1 + Len(StubsListed)))

\* The position in the listing response of the stub with this id.
PositionOf(id) ==
    CHOOSE k \in 1..Len(StubsListed) :
        "id" \in DOMAIN StubsListed[k] /\ StubsListed[k]["id"] = id

\* C28: the list scrape() returns is in listing order: the successful
\* records appear in the same relative order as their stubs in the listing
\* response, whatever the order in which the detail fetches completed.
C28_ListingOrder ==
    phase = "returned"
    => \A j1, j2 \in 1..Len(result) :
          j1 < j2 => PositionOf(result[j1]["id"]) < PositionOf(result[j2]["id"])

\* scrape() returned two records after the fetch of the second had ended
\* before the fetch of the first.
C28_Witness ==
    /\ phase = "returned"
    /\ Len(result) >= 2
    /\ overtook

====
